---- MODULE Spec2Model ----
(***************************************************************************)
(* A model of mern_setup.py, the interactive project scaffolder.           *)
(*                                                                         *)
(* One run of the program is one behaviour: get_user_input collects the    *)
(* answers, then main materializes the project step by step.  The state is *)
(* the configuration returned by get_user_input, the module-level table    *)
(* DEFAULT_PACKAGES (a mutable Python dict), the part of the filesystem    *)
(* below Path.cwd()/project_name, the log of external commands run through *)
(* subprocess.run, what was printed, and the exit code of the process.     *)
(*                                                                         *)
(* Paths are sequences of components relative to base_path; <<>> is        *)
(* base_path itself.  A file's content is a sequence of <<key, value>>     *)
(* pairs: the KEY=value lines of a .env file, the scripts of package.json, *)
(* or <<"template", name>> for a fixed text template.                      *)
(***************************************************************************)
EXTENDS Integers, Sequences, FiniteSets, TLC

VARIABLES
    pc,                \* the statement of get_user_input/main that runs next
    config,            \* the dict returned by get_user_input
    cancelled,         \* the prompts whose .ask() returned None (user cancel)
    DEFAULT_PACKAGES,  \* the module-level capability table
    dirs,              \* directories that exist below (and including) base_path
    files,             \* files written by the tool: path -> content
    cmds,              \* subprocess.run calls so far: [argv, cwd, rc]
    out,               \* what the process reported, in order
    exit_code          \* Running until the process ends, then 0 or 1

vars == <<pc, config, cancelled, DEFAULT_PACKAGES, dirs, files, cmds, out, exit_code>>

-----------------------------------------------------------------------------
(* Bounds of the model *)

\* The longest "Additional dependencies" answer explored, in words.
MaxExtraDeps == 1

\* The most prompts one run sees cancelled.
MaxCancelled == 1

\* The words an "Additional dependencies" answer is made of.
ExtraDepNames == {"lodash"}

-----------------------------------------------------------------------------
(* Values *)

\* Python's None, as opposed to the strings "None" and "none".
PyNone == "<None>"

\* exit_code while the process runs.
Running == -1

\* os.name of the platform the model describes.
os_name == "posix"

\* The table as the module creates it at import time.
DEFAULT_PACKAGES_literal ==
    [server |->
        [express |-> [required |-> <<"express", "cors", "dotenv">>,
                      dev |-> <<"nodemon", "@types/express", "@types/cors">>],
         fastapi |-> [required |-> <<"fastapi", "uvicorn", "python-dotenv", "pydantic">>,
                      dev |-> <<"pytest", "black", "flake8">>],
         django  |-> [required |-> <<"django", "djangorestframework",
                                     "django-cors-headers", "python-dotenv">>,
                      dev |-> <<"pytest", "pytest-django", "black", "flake8">>],
         flask   |-> [required |-> <<"flask", "flask-cors", "python-dotenv">>,
                      dev |-> <<"pytest", "black", "flake8">>],
         nest    |-> [required |-> <<"@nestjs/core", "@nestjs/common",
                                     "@nestjs/platform-express">>,
                      dev |-> <<"@nestjs/cli", "@nestjs/schematics", "@nestjs/testing">>]],
     database |->
        [mongodb    |-> [node |-> <<"mongoose">>, python |-> <<"pymongo", "motor">>],
         postgresql |-> [node |-> <<"pg", "sequelize">>,
                         python |-> <<"psycopg2-binary", "sqlalchemy">>],
         mysql      |-> [node |-> <<"mysql2", "sequelize">>,
                         python |-> <<"mysql-connector-python", "sqlalchemy">>],
         sqlite     |-> [node |-> <<"sqlite3", "sequelize">>, python |-> <<"sqlalchemy">>]],
     client |->
        [react |->
            [required |-> <<"react-router-dom", "axios">>,
             dev |-> <<>>,
             styling |->
                ("tailwind" :> <<"tailwindcss", "postcss", "autoprefixer">>) @@
                ("bootstrap" :> <<"bootstrap", "react-bootstrap">>) @@
                ("mui" :> <<"@mui/material", "@mui/icons-material",
                            "@emotion/react", "@emotion/styled">>) @@
                ("chakra" :> <<"@chakra-ui/react", "@emotion/react",
                               "@emotion/styled", "framer-motion">>) @@
                ("styled-components" :> <<"styled-components">>),
             state |->
                [redux |-> <<"redux", "react-redux", "@reduxjs/toolkit">>,
                 zustand |-> <<"zustand">>,
                 recoil |-> <<"recoil">>,
                 jotai |-> <<"jotai">>,
                 context |-> <<>>]],
         vue |->
            [required |-> <<"vue-router", "axios">>,
             dev |-> <<>>,
             styling |->
                [tailwind |-> <<"tailwindcss", "postcss", "autoprefixer">>,
                 bootstrap |-> <<"bootstrap", "bootstrap-vue">>,
                 vuetify |-> <<"vuetify">>],
             state |-> [pinia |-> <<"pinia">>, vuex |-> <<"vuex">>]],
         svelte |->
            [required |-> <<"svelte-navigator", "axios">>,
             dev |-> <<>>,
             styling |-> [tailwind |-> <<"tailwindcss", "postcss", "autoprefixer">>],
             state |-> ("svelte-store" :> <<>>)],
         angular |->
            [required |-> <<"@angular/router", "axios">>,
             dev |-> <<>>,
             styling |->
                [tailwind |-> <<"tailwindcss", "postcss", "autoprefixer">>,
                 bootstrap |-> <<"bootstrap", "ngx-bootstrap">>],
             state |-> [ngrx |-> <<"@ngrx/store", "@ngrx/effects", "@ngrx/entity">>]]]]

\* str.lower() on the strings the prompts can return.
lower(s) ==
    CASE s = "Express" -> "express"
      [] s = "NestJS" -> "nestjs"
      [] s = "FastAPI" -> "fastapi"
      [] s = "Django" -> "django"
      [] s = "Flask" -> "flask"
      [] s = "MongoDB" -> "mongodb"
      [] s = "PostgreSQL" -> "postgresql"
      [] s = "MySQL" -> "mysql"
      [] s = "SQLite" -> "sqlite"
      [] s = "None" -> "none"
      [] s = "React" -> "react"
      [] s = "Vue" -> "vue"
      [] s = "Svelte" -> "svelte"
      [] s = "Angular" -> "angular"
      [] OTHER -> s

\* str.replace("-", "_") on the project names of the model.
replace_dash(s) ==
    CASE s = "my-app" -> "my_app"
      [] OTHER -> s

\* The elements of a sequence.
Range(s) == {s[i] : i \in DOMAIN s}

\* Sequences over S of length at most n.
SeqUpTo(S, n) == UNION {[1..k -> S] : k \in 0..n}

-----------------------------------------------------------------------------
(* get_user_input: the prompts *)

\* A prompt's .ask(): one of its choices, or None when the user cancels.
Ask(choices) == choices \cup {PyNone}

\* The configuration before get_user_input has returned.
NoConfig ==
    [project_name |-> PyNone, project_type |-> PyNone,
     backend_language |-> PyNone, backend_framework |-> PyNone,
     frontend_framework |-> PyNone, database |-> PyNone,
     styling_choice |-> PyNone, state_management |-> PyNone,
     js_package_manager |-> PyNone, py_package_manager |-> PyNone,
     additional_deps |-> <<>>, init_git |-> FALSE, add_docker |-> FALSE,
     use_typescript |-> FALSE]

ProjectNames == {"my-app"}
ProjectTypes == {"Full-stack", "Backend only", "Frontend only"}
BackendLanguages == {"JavaScript", "TypeScript", "Python"}
DatabaseChoices == {"MongoDB", "PostgreSQL", "MySQL", "SQLite", "None"}
FrontendChoices == {"React", "Vue", "Svelte", "Angular"}
JsPackageManagers == {"npm", "yarn", "pnpm"}

\* The framework list offered after the language answer.
BackendFrameworkChoices(backend_language) ==
    IF backend_language \in {"JavaScript", "TypeScript"}
    THEN {"Express", "NestJS"}
    ELSE {"FastAPI", "Django", "Flask"}

\* The styling prompt offering React's keys whatever the frontend framework.
StylingChoices_React(frontend_framework) ==
    DOMAIN DEFAULT_PACKAGES["client"]["react"]["styling"] \cup {"None"}

\* styling_choices + ["None"] for the chosen frontend framework.
StylingChoices(frontend_framework) ==
    DOMAIN DEFAULT_PACKAGES["client"][frontend_framework]["styling"] \cup {"None"}

\* state_choices + ["None"] for the chosen frontend framework.
StateChoices(frontend_framework) ==
    DOMAIN DEFAULT_PACKAGES["client"][frontend_framework]["state"] \cup {"None"}

\* What get_python_package_manager can return: poetry or conda when found on
\* PATH and confirmed, pip otherwise.
get_python_package_manager == {"poetry", "conda", "pip"}

\* The answer of questionary.text(...).ask() when cancelled; .split() of it
\* raises AttributeError.
DepsCancelled == <<PyNone>>

\* The answers to "Additional dependencies", as their whitespace-separated words.
DepsAnswers == SeqUpTo(ExtraDepNames, MaxExtraDeps) \cup {DepsCancelled}

\* The part of the Full-stack answer space the model explores: one side keeps
\* the first-listed choices while the other side takes every answer.
FullStackScope(project_type, lang, fw, db, ffw, sty, st) ==
    project_type = "Full-stack" =>
        \/ <<lang, fw, db>> = <<"JavaScript", "Express", "MongoDB">>
        \/ <<ffw, sty, st>> = <<"React", "tailwind", "redux">>

\* The dict get_user_input returns for the answers a.
ResolvedConfig(a) ==
    [project_name |-> a.project_name,
     project_type |-> a.project_type,
     backend_language |-> a.backend_language,
     backend_framework |-> lower(a.backend_framework),
     frontend_framework |-> lower(a.frontend_framework),
     database |-> lower(a.database),
     styling_choice |-> IF lower(a.styling_choice) = "none" THEN PyNone
                        ELSE a.styling_choice,
     state_management |-> IF lower(a.state_management) = "none" THEN PyNone
                          ELSE a.state_management,
     js_package_manager |-> a.js_package_manager,
     py_package_manager |-> a.py_package_manager,
     additional_deps |-> a.additional_deps,
     init_git |-> a.init_git,
     add_docker |-> a.add_docker,
     use_typescript |-> \/ a.backend_language = "TypeScript"
                        \/ /\ lower(a.frontend_framework) \in {"react", "vue", "angular"}
                           /\ a.ts_frontend]

\* The prompts of a that were asked and answered None.
CancelledPrompts(a, asked) == {p \in asked : a[p] = PyNone}

\* main's first two statements: config = get_user_input() and base_path =
\* Path.cwd() / config['project_name'].  Every select/text prompt may return
\* None (cancel).  A
\* None that the code calls .lower() or .split() on raises AttributeError,
\* which nothing catches: the process ends with a traceback and status 1.
\* A confirm prompt's None is falsy everywhere it is used; the answer FALSE
\* stands for both.
get_user_input ==
    /\ pc = "get_user_input"
    /\ \E project_name \in Ask(ProjectNames), project_type \in Ask(ProjectTypes) :
       LET backend == project_type \in {"Full-stack", "Backend only"}
           frontend == project_type \in {"Full-stack", "Frontend only"}
       IN
       \E lang \in IF backend THEN Ask(BackendLanguages) ELSE {PyNone} :
       \E fw \in IF backend THEN Ask(BackendFrameworkChoices(lang)) ELSE {PyNone} :
       \E db \in IF backend /\ fw # PyNone THEN Ask(DatabaseChoices) ELSE {PyNone} :
       LET crash1 == backend /\ (fw = PyNone \/ db = PyNone) IN
       \E ffw \in IF frontend /\ ~crash1 THEN Ask(FrontendChoices) ELSE {PyNone} :
       \E sty \in IF ffw # PyNone THEN Ask(StylingChoices(lower(ffw))) ELSE {PyNone} :
       \E st \in IF sty # PyNone THEN Ask(StateChoices(lower(ffw))) ELSE {PyNone} :
       LET crash2 == crash1 \/ (frontend /\ (ffw = PyNone \/ sty = PyNone \/ st = PyNone))
           askJs == ~crash2 /\ (lang \in {"JavaScript", "TypeScript"} \/ frontend)
           askPy == ~crash2 /\ lang = "Python"
           askTs == lang # "TypeScript" /\ lower(ffw) \in {"react", "vue", "angular"}
       IN
       /\ FullStackScope(project_type, lang, fw, db, ffw, sty, st)
       /\ \E jspm \in IF askJs THEN Ask(JsPackageManagers) ELSE {PyNone} :
          \E pypm \in IF askPy THEN get_python_package_manager ELSE {PyNone} :
          \E deps \in IF crash2 THEN {<<>>} ELSE DepsAnswers :
          LET crash3 == crash2 \/ deps = DepsCancelled IN
          \E init_git \in IF crash3 THEN {FALSE} ELSE BOOLEAN :
          \E add_docker \in IF crash3 THEN {FALSE} ELSE BOOLEAN :
          \E ts_frontend \in IF crash3 \/ ~askTs THEN {FALSE} ELSE BOOLEAN :
          LET a == [project_name |-> project_name, project_type |-> project_type,
                    backend_language |-> lang, backend_framework |-> fw,
                    database |-> db, frontend_framework |-> ffw,
                    styling_choice |-> sty, state_management |-> st,
                    js_package_manager |-> jspm, py_package_manager |-> pypm,
                    additional_deps |-> deps, init_git |-> init_git,
                    add_docker |-> add_docker, ts_frontend |-> ts_frontend]
              asked == {"project_name", "project_type"}
                       \cup (IF backend THEN {"backend_language", "backend_framework"}
                             ELSE {})
                       \cup (IF backend /\ fw # PyNone THEN {"database"} ELSE {})
                       \cup (IF frontend /\ ~crash1 THEN {"frontend_framework"} ELSE {})
                       \cup (IF ffw # PyNone THEN {"styling_choice"} ELSE {})
                       \cup (IF sty # PyNone THEN {"state_management"} ELSE {})
                       \cup (IF askJs THEN {"js_package_manager"} ELSE {})
          IN
          /\ cancelled' = CancelledPrompts(a, asked)
                          \cup (IF deps = DepsCancelled THEN {"additional_deps"} ELSE {})
          /\ Cardinality(cancelled') <= MaxCancelled
          /\ IF crash3
             THEN /\ config' = config
                  /\ out' = Append(out, "Traceback: AttributeError")
                  /\ exit_code' = 1
                  /\ pc' = "exited"
             ELSE /\ config' = ResolvedConfig(a)
                  /\ IF project_name = PyNone
                     THEN \* Path.cwd() / None raises TypeError, outside main's try
                          /\ out' = Append(out, "Traceback: TypeError")
                          /\ exit_code' = 1
                          /\ pc' = "exited"
                     ELSE /\ out' = out
                          /\ exit_code' = exit_code
                          /\ pc' = "mkdir"
    /\ UNCHANGED <<DEFAULT_PACKAGES, dirs, files, cmds>>

-----------------------------------------------------------------------------
(* The statements a function executes, in order *)

\* path.mkdir(parents=True, exist_ok=True)
Mkdir(path) == [op |-> "mkdir", path |-> path]

\* path.write_text(content)
Write(path, content) == [op |-> "write", path |-> path, content |-> content]

\* subprocess.run(argv, cwd=cwd, check=True)
Run(argv, cwd) == [op |-> "run", argv |-> argv, cwd |-> cwd]

\* subprocess.run(argv, capture_output=True, check=True) inside the try of
\* setup_node_server
Probe(argv) == [op |-> "probe", argv |-> argv, cwd |-> <<"..">>]

\* In-place list operations on DEFAULT_PACKAGES, given by the table they leave.
SetTable(t) == [op |-> "table", table |-> t]

\* An exception raised by the statement itself.
Raise(exc) == [op |-> "raise", exc |-> exc]

\* A fixed text template.
Template(name) == <<<<"template", name>>>>

\* The directory a path is in, and every directory above it up to base_path.
Parents(path) == {SubSeq(path, 1, k) : k \in 1..Len(path)}

\* str.upper() on the database names.
upper(s) ==
    CASE s = "postgresql" -> "POSTGRESQL"
      [] s = "mysql" -> "MYSQL"
      [] OTHER -> s

\* get_package_manager_command
get_package_manager_command(pm) ==
    IF os_name = "nt" /\ pm \in {"npm", "npx", "yarn", "pnpm"}
    THEN pm \o ".cmd"
    ELSE pm

-----------------------------------------------------------------------------
(* create_directory_structure *)

\* The list dirs that create_directory_structure builds.
create_directory_structure_dirs(c) ==
    IF c.project_type \in {"Full-stack", "Backend only"}
    THEN IF c.backend_language \in {"JavaScript", "TypeScript"}
         THEN IF c.backend_framework = "express"
              THEN <<<<"server", "src", "config">>,
                     <<"server", "src", "models">>,
                     <<"server", "src", "controllers">>,
                     <<"server", "src", "routes">>,
                     <<"server", "src", "middleware">>,
                     <<"server", "src", "utils">>>>
                   \o (IF c.use_typescript THEN <<<<"server", "src", "types">>>> ELSE <<>>)
              ELSE IF c.backend_framework = "nest"
              THEN <<<<"server", "src", "modules">>,
                     <<"server", "src", "common">>,
                     <<"server", "src", "config">>>>
              ELSE <<>>
         ELSE IF c.backend_language = "Python"
         THEN IF c.backend_framework = "fastapi"
              THEN <<<<"server", "app", "routers">>,
                     <<"server", "app", "models">>,
                     <<"server", "app", "schemas">>,
                     <<"server", "app", "services">>,
                     <<"server", "app", "utils">>,
                     <<"server", "tests">>>>
              ELSE IF c.backend_framework = "django"
              THEN <<<<"server", replace_dash(c.project_name)>>,
                     <<"server", "api">>,
                     <<"server", "static">>,
                     <<"server", "templates">>>>
              ELSE IF c.backend_framework = "flask"
              THEN <<<<"server", "app">>,
                     <<"server", "app", "routes">>,
                     <<"server", "app", "models">>,
                     <<"server", "app", "templates">>,
                     <<"server", "app", "static">>,
                     <<"server", "tests">>>>
              ELSE <<>>
         ELSE <<>>
    ELSE <<>>

\* create_directory_structure: one mkdir per listed directory.
create_directory_structure_ops(c) ==
    LET ds == create_directory_structure_dirs(c)
    IN [i \in 1..Len(ds) |-> Mkdir(ds[i])]

-----------------------------------------------------------------------------
(* create_server_files *)

\* The HOST/PORT/USER/PASSWORD/DATABASE lines written for postgresql and mysql.
sql_env_lines(c) ==
    LET db_name == upper(c.database)
    IN <<<<db_name \o "_HOST", "localhost">>,
         <<db_name \o "_PORT", IF c.database = "postgresql" THEN "5432" ELSE "3306">>,
         <<db_name \o "_USER", "root">>,
         <<db_name \o "_PASSWORD", "password">>,
         <<db_name \o "_DATABASE", replace_dash(c.project_name)>>>>

\* env_content of create_express_files and create_fastapi_files after the PORT line.
mongo_or_sql_env_lines(c) ==
    IF c.database = "mongodb"
    THEN <<<<"MONGO_URI", "mongodb://localhost:27017/" \o c.project_name>>>>
    ELSE IF c.database \in {"postgresql", "mysql"}
    THEN sql_env_lines(c)
    ELSE <<>>

create_express_files(c, ext) ==
    <<Write(<<"server", "src", "app." \o ext>>,
            <<<<"template", "express app">>, <<"database", c.database>>>>),
      Write(<<"server", ".env">>, <<<<"PORT", "5000">>>> \o mongo_or_sql_env_lines(c))>>
    \o (IF c.use_typescript
        THEN <<Write(<<"server", "tsconfig.json">>, Template("tsconfig"))>>
        ELSE <<>>)

create_nest_files(c) ==
    <<Run(<<get_package_manager_command("npx"), "@nestjs/cli@latest", "new",
            "server", "--skip-install">>, <<>>),
      Write(<<"server", ".env">>, <<<<"PORT", "3000">>>>)>>

create_fastapi_files(c) ==
    <<Write(<<"server", "app", "main.py">>, Template("fastapi main")),
      Write(<<"server", "app", "__init__.py">>, <<>>),
      Write(<<"server", "app", "routers", "__init__.py">>, <<>>),
      Write(<<"server", "app", "models", "__init__.py">>, <<>>),
      Write(<<"server", "app", "schemas", "__init__.py">>, <<>>),
      Write(<<"server", "app", "services", "__init__.py">>, <<>>),
      Write(<<"server", "app", "utils", "__init__.py">>, <<>>),
      Write(<<"server", "app", "db.py">>,
            <<<<"template", "db config">>, <<"database", c.database>>>>),
      Write(<<"server", ".env">>, <<<<"PORT", "8000">>>> \o mongo_or_sql_env_lines(c)),
      Write(<<"server", "requirements.txt">>, <<>>)>>

create_django_files(c) ==
    <<Run(<<"django-admin", "startproject", c.project_name, ".">>, <<"server">>),
      Run(<<"python", "manage.py", "startapp", "api">>, <<"server">>)>>

\* create_flask_files with the env_content of create_express_files: no
\* SECRET_KEY line.
create_flask_files_ExpressEnv(c) ==
    <<Write(<<"server", "app", "__init__.py">>, Template("flask app factory")),
      Write(<<"server", "app", "routes", "__init__.py">>, <<>>),
      Write(<<"server", "app", "routes", "main_routes.py">>, Template("flask routes")),
      Write(<<"server", "wsgi.py">>, Template("flask wsgi")),
      Write(<<"server", ".env">>, <<<<"PORT", "5000">>>> \o mongo_or_sql_env_lines(c)),
      Write(<<"server", "requirements.txt">>, <<>>)>>

create_flask_files(c) ==
    <<Write(<<"server", "app", "__init__.py">>, Template("flask app factory")),
      Write(<<"server", "app", "routes", "__init__.py">>, <<>>),
      Write(<<"server", "app", "routes", "main_routes.py">>, Template("flask routes")),
      Write(<<"server", "wsgi.py">>, Template("flask wsgi")),
      Write(<<"server", ".env">>,
            <<<<"PORT", "5000">>, <<"SECRET_KEY", "your_secret_key_here">>>>
            \o (IF c.database \in {"postgresql", "mysql"} THEN sql_env_lines(c) ELSE <<>>)),
      Write(<<"server", "requirements.txt">>, <<>>)>>

\* create_server_files writing tsconfig.json for every backend when
\* use_typescript is set, not only inside create_express_files.
create_server_files_ops_TsconfigForAll(c) ==
    (IF c.backend_language \in {"JavaScript", "TypeScript"}
     THEN IF c.backend_framework = "express"
          THEN create_express_files([c EXCEPT !.use_typescript = FALSE],
                                    IF c.use_typescript THEN "ts" ELSE "js")
          ELSE <<>>
     ELSE IF c.backend_language = "Python"
     THEN IF c.backend_framework = "fastapi" THEN create_fastapi_files(c)
          ELSE IF c.backend_framework = "django" THEN create_django_files(c)
          ELSE IF c.backend_framework = "flask" THEN create_flask_files(c)
          ELSE <<>>
     ELSE <<>>)
    \o (IF c.use_typescript
        THEN <<Write(<<"server", "tsconfig.json">>, Template("tsconfig"))>>
        ELSE <<>>)

create_server_files_ops(c) ==
    IF c.backend_language \in {"JavaScript", "TypeScript"}
    THEN IF c.backend_framework = "express"
         THEN create_express_files(c, IF c.use_typescript THEN "ts" ELSE "js")
         ELSE IF c.backend_framework = "nest"
         THEN create_nest_files(c)
         ELSE <<>>
    ELSE IF c.backend_language = "Python"
    THEN IF c.backend_framework = "fastapi" THEN create_fastapi_files(c)
         ELSE IF c.backend_framework = "django" THEN create_django_files(c)
         ELSE IF c.backend_framework = "flask" THEN create_flask_files(c)
         ELSE <<>>
    ELSE <<>>

-----------------------------------------------------------------------------
(* setup_server *)

\* framework_deps and framework_dev_deps are the lists of the table itself,
\* not copies: list.extend changes DEFAULT_PACKAGES in place.
setup_node_server(c, t) ==
    LET pm == get_package_manager_command(c.js_package_manager)
        t1 == IF c.use_typescript
              THEN [t EXCEPT !.server.express.dev = @ \o <<"typescript", "@types/node">>]
              ELSE t
        known == c.database \in DOMAIN t.database
        t2 == IF c.database # "none"
              THEN [t1 EXCEPT !.server.express.required = @ \o t.database[c.database].node]
              ELSE t1
        t3 == [t2 EXCEPT !.server.express.required = @ \o c.additional_deps]
    IN <<Probe(<<pm, "--version">>)>>
       \o (IF c.backend_framework = "express"
           THEN <<Run(<<pm, "init", "-y">>, <<"server">>)>>
                \o (IF c.database # "none" /\ ~known
                    THEN <<SetTable(t1), Raise("KeyError")>>
                    ELSE <<SetTable(t3),
                           Run(<<pm, "install">> \o t3.server.express.required, <<"server">>),
                           Run(<<pm, "install", "-D">> \o t3.server.express.dev, <<"server">>),
                           Write(<<"server", "package.json">>,
                                 <<<<"start", "node dist/app.js">>,
                                   <<"dev", IF c.use_typescript
                                            THEN "nodemon --watch src --exec ts-node src/app.ts"
                                            ELSE "nodemon src/app.js">>,
                                   <<"build", IF c.use_typescript THEN "tsc" ELSE "">>>>)>>)
           ELSE IF c.backend_framework = "nest"
           THEN <<Run(<<pm, "install">>, <<"server">>),
                  Run(<<pm, "install", "-D">> \o t.server.nest.dev, <<"server">>)>>
           ELSE <<>>)

setup_python_server(c, t) ==
    LET pm == c.py_package_manager
        fw == c.backend_framework
        known == c.database \in DOMAIN t.database
        t1 == IF c.database # "none"
              THEN [t EXCEPT !.server[fw].required = @ \o t.database[c.database].python]
              ELSE t
        t2 == [t1 EXCEPT !.server[fw].required = @ \o c.additional_deps]
        framework_deps == t2.server[fw].required
        dev_deps == t2.server[fw].dev
    IN (IF pm = "poetry"
        THEN <<Run(<<"poetry", "init", "--no-interaction">>, <<"server">>)>>
        ELSE IF pm = "conda"
        THEN <<Run(<<"conda", "create", "--name", c.project_name, "python=3.9", "-y">>,
                   <<"server">>)>>
        ELSE <<>>)
       \o (IF fw \notin DOMAIN t.server \/ (c.database # "none" /\ ~known)
           THEN <<Raise("KeyError")>>
           ELSE <<SetTable(t2)>>
                \o (IF pm = "poetry"
                    THEN <<Run(<<"poetry", "add">> \o framework_deps, <<"server">>),
                           Run(<<"poetry", "add", "-D">> \o dev_deps, <<"server">>)>>
                    ELSE IF pm = "conda"
                    THEN <<Run(<<"conda", "install", "-y">> \o framework_deps, <<"server">>),
                           Run(<<"pip", "install">> \o dev_deps, <<"server">>)>>
                    ELSE <<Run(<<"sys.executable", "-m", "pip", "install">>
                               \o framework_deps \o dev_deps, <<"server">>)>>)
                \o (IF fw = "django"
                    THEN <<Run(<<"python", "manage.py", "migrate">>, <<"server">>)>>
                    ELSE <<>>))

setup_server_ops(c, t) ==
    IF c.backend_language \in {"JavaScript", "TypeScript"} THEN setup_node_server(c, t)
    ELSE IF c.backend_language = "Python" THEN setup_python_server(c, t)
    ELSE <<>>

-----------------------------------------------------------------------------
(* setup_client *)

\* The list dirs that create_client_additional_dirs builds, below client_path.
create_client_additional_dirs(c) ==
    IF c.frontend_framework = "react"
    THEN <<<<"src", "components">>, <<"src", "pages">>, <<"src", "hooks">>,
           <<"src", "utils">>, <<"src", "assets", "styles">>,
           <<"src", "assets", "images">>>>
         \o (IF c.use_typescript THEN <<<<"src", "types">>>> ELSE <<>>)
         \o (IF c.state_management \in {"redux", "zustand", "recoil", "jotai"}
             THEN <<<<"src", "store">>>> ELSE <<>>)
    ELSE IF c.frontend_framework = "vue"
    THEN <<<<"src", "components">>, <<"src", "views">>, <<"src", "composables">>,
           <<"src", "utils">>, <<"src", "assets", "styles">>,
           <<"src", "assets", "images">>>>
         \o (IF c.state_management \in {"pinia", "vuex"}
             THEN <<<<"src", "store">>>> ELSE <<>>)
    ELSE IF c.frontend_framework = "svelte"
    THEN <<<<"src", "components">>, <<"src", "routes">>, <<"src", "lib">>,
           <<"src", "assets">>>>
    ELSE IF c.frontend_framework = "angular"
    THEN <<<<"src", "app", "components">>, <<"src", "app", "pages">>,
           <<"src", "app", "services">>, <<"src", "app", "shared">>>>
         \o (IF c.state_management = "ngrx"
             THEN <<<<"src", "app", "store">>>> ELSE <<>>)
    ELSE <<>>

\* The vite branches of setup_client (react, vue, svelte).
setup_client_vite(c, t, pm, fw) ==
    <<Run(<<pm, "create", "vite@latest", "client",
            IF c.use_typescript THEN "--template " \o fw \o "-ts"
            ELSE "--template " \o fw>>, <<>>),
      Run(<<pm, "install">> \o t.client[fw].required, <<"client">>)>>

setup_client_ops(c, t) ==
    LET pm == get_package_manager_command(c.js_package_manager)
        ds == create_client_additional_dirs(c)
    IN (IF c.frontend_framework \in {"react", "vue", "svelte"}
        THEN setup_client_vite(c, t, pm, c.frontend_framework)
        ELSE IF c.frontend_framework = "angular"
        THEN <<Run(<<pm, "install", "-g", "@angular/cli">>, <<"..">>),
               Run(<<"ng", "new", "client", "--skip-install", "--routing",
                     "--style=scss">>, <<>>),
               Run(<<pm, "install">> \o t.client.angular.required, <<"client">>)>>
        ELSE <<>>)
       \o [i \in 1..Len(ds) |-> Mkdir(<<"client">> \o ds[i])]

\* create_client_files rewrites vite.config.<ext> when the scaffolder left one
\* without a server block; what the scaffolder wrote is not the tool's to know.
create_client_files_ops(c) ==
    IF c.project_type = "Full-stack" /\ c.frontend_framework = "react"
    THEN {<<>>,
          <<Write(<<"client", "vite.config." \o (IF c.use_typescript THEN "ts" ELSE "js")>>,
                  Template("vite config with /api proxy"))>>}
    ELSE {<<>>}

-----------------------------------------------------------------------------
(* add_docker_support and git *)

add_docker_support_ops(c) ==
    <<Write(<<"Dockerfile">>,
            IF c.project_type = "Full-stack" THEN Template("Dockerfile client+server+nginx")
            ELSE IF c.project_type = "Backend only" THEN Template("Dockerfile python")
            ELSE <<>>)>>
    \o (IF c.database # "none"
        THEN <<Write(<<"docker-compose.yml">>,
                     <<<<"service", "app">>>>
                     \o (IF c.database = "postgresql"
                         THEN <<<<"service", "postgres">>, <<"volume", "postgres_data">>>>
                         ELSE <<>>))>>
        ELSE <<>>)

git_init_ops(c) ==
    <<Run(<<"git", "init">>, <<>>),
      Write(<<".gitignore">>, Template("gitignore"))>>

-----------------------------------------------------------------------------
(* Running the statements of one function *)

\* Whether a statement can complete normally.  subprocess.run raises
\* TypeError when the executable is None.
Completes(o) ==
    /\ o.op # "raise"
    /\ o.op \in {"run", "probe"} => o.argv[1] # PyNone

\* Whether an executable may be missing from PATH: not the running
\* interpreter, not a tool shutil.which has found, not one that already ran.
MayBeMissing(exe, log) ==
    /\ exe \notin {"sys.executable", "poetry", "conda"}
    /\ \A i \in 1..Len(log) : log[i].argv[1] # exe

\* The ways statement o can fail after the commands of log: the return code
\* logged (if the command was started at all) and what the process reports.
\* main catches CalledProcessError; setup_node_server catches both exceptions
\* of the probe; everything else ends in a traceback.
Failures(o, log) ==
    IF o.op = "raise"
    THEN {[started |-> FALSE, rc |-> "", msg |-> "Traceback: " \o o.exc]}
    ELSE IF o.op \notin {"run", "probe"}
    THEN {}
    ELSE IF o.argv[1] = PyNone
    THEN {[started |-> FALSE, rc |-> "", msg |-> "Traceback: TypeError"]}
    ELSE {[started |-> TRUE, rc |-> rc,
           msg |-> IF o.op = "probe" THEN "Error: package manager not found"
                   ELSE IF rc = "nonzero" THEN "Error running command"
                   ELSE "Traceback: FileNotFoundError"] :
          rc \in {"nonzero"} \cup (IF MayBeMissing(o.argv[1], log)
                                   THEN {"FileNotFoundError"} ELSE {})}

\* The log entry of a command.
Logged(o, rc) == [argv |-> o.argv, cwd |-> o.cwd, rc |-> rc]

\* The commands among the first k statements, all of which returned zero.
RECURSIVE OkLog(_, _)
OkLog(ops, k) ==
    IF k = 0 THEN <<>>
    ELSE OkLog(ops, k - 1)
         \o (IF ops[k].op \in {"run", "probe"} THEN <<Logged(ops[k], "ok")>> ELSE <<>>)

\* The directories after the first k statements.
DirsAfter(ops, k, ds) ==
    ds \cup UNION {Parents(ops[i].path) : i \in {j \in 1..k : ops[j].op = "mkdir"}}

\* The files after the first k statements: the last write_text to a path wins.
FilesAfter(ops, k, fs) ==
    LET writes == {i \in 1..k : ops[i].op = "write"}
        written == {ops[i].path : i \in writes}
        last(p) == CHOOSE i \in writes :
                      /\ ops[i].path = p
                      /\ \A j \in writes : ops[j].path = p => j <= i
    IN [p \in DOMAIN fs \cup written |->
            IF p \in written THEN ops[last(p)].content ELSE fs[p]]

\* DEFAULT_PACKAGES after the first k statements.
TableAfter(ops, k, t) ==
    LET sets == {i \in 1..k : ops[i].op = "table"}
    IN IF sets = {} THEN t
       ELSE ops[CHOOSE i \in sets : \A j \in sets : j <= i].table

\* Execute as it would behave if subprocess.run were called without
\* check=True: a command that returns non-zero is logged and the statements
\* after it run all the same.
Execute_Unchecked(ops, next) ==
    \E k \in 0..Len(ops) :
        LET all == OkLog(ops, Len(ops)) IN
        /\ \A i \in 1..Len(ops) : Completes(ops[i])
        /\ k > 0 => ops[k].op = "run"
        /\ dirs' = DirsAfter(ops, Len(ops), dirs)
        /\ files' = FilesAfter(ops, Len(ops), files)
        /\ DEFAULT_PACKAGES' = TableAfter(ops, Len(ops), DEFAULT_PACKAGES)
        /\ cmds' = IF k = 0 THEN cmds \o all
                   ELSE cmds \o OkLog(ops, k - 1) \o <<Logged(ops[k], "nonzero")>>
                        \o SubSeq(all, Len(OkLog(ops, k)) + 1, Len(all))
        /\ out' = out
        /\ exit_code' = exit_code
        /\ pc' = next

\* Execute as it would behave with a cleanup handler that removes the
\* project directory when a statement fails.
Execute_Rollback(ops, next) ==
    \E k \in 0..Len(ops) :
        LET log == cmds \o OkLog(ops, k) IN
        /\ \A i \in 1..k : Completes(ops[i])
        /\ DEFAULT_PACKAGES' = TableAfter(ops, k, DEFAULT_PACKAGES)
        /\ IF k = Len(ops)
           THEN /\ dirs' = DirsAfter(ops, k, dirs)
                /\ files' = FilesAfter(ops, k, files)
                /\ cmds' = log
                /\ out' = out
                /\ exit_code' = exit_code
                /\ pc' = next
           ELSE \E f \in Failures(ops[k + 1], log) :
                /\ dirs' = {}
                /\ files' = <<>>
                /\ cmds' = IF f.started THEN Append(log, Logged(ops[k + 1], f.rc)) ELSE log
                /\ out' = Append(out, f.msg)
                /\ exit_code' = 1
                /\ pc' = "exited"

\* Run the statements ops in order.  Each external command returns zero,
\* returns non-zero or cannot be started; the first failure ends the process
\* with status 1, and what was done before it stays done.
Execute(ops, next) ==
    \E k \in 0..Len(ops) :
        LET log == cmds \o OkLog(ops, k) IN
        /\ \A i \in 1..k : Completes(ops[i])
        /\ dirs' = DirsAfter(ops, k, dirs)
        /\ files' = FilesAfter(ops, k, files)
        /\ DEFAULT_PACKAGES' = TableAfter(ops, k, DEFAULT_PACKAGES)
        /\ IF k = Len(ops)
           THEN /\ cmds' = log
                /\ out' = out
                /\ exit_code' = exit_code
                /\ pc' = next
           ELSE \E f \in Failures(ops[k + 1], log) :
                /\ cmds' = IF f.started THEN Append(log, Logged(ops[k + 1], f.rc)) ELSE log
                /\ out' = Append(out, f.msg)
                /\ exit_code' = 1
                /\ pc' = "exited"

-----------------------------------------------------------------------------
(* main *)

\* The calls of main's try block, in order.
MainOrder ==
    <<"mkdir", "create_directory_structure", "create_server_files", "setup_server",
      "setup_client", "create_client_files", "add_docker_support", "git_init",
      "success">>

\* Applicable with the project-type test of the server calls left out.
Applicable_ServerAlways(step, c) ==
    CASE step \in {"setup_client", "create_client_files"} ->
            c.project_type \in {"Full-stack", "Frontend only"}
      [] step = "add_docker_support" -> c.add_docker
      [] step = "git_init" -> c.init_git
      [] OTHER -> TRUE

\* The condition main puts on each call.
Applicable(step, c) ==
    CASE step \in {"create_server_files", "setup_server"} ->
            c.project_type \in {"Full-stack", "Backend only"}
      [] step \in {"setup_client", "create_client_files"} ->
            c.project_type \in {"Full-stack", "Frontend only"}
      [] step = "add_docker_support" -> c.add_docker
      [] step = "git_init" -> c.init_git
      [] OTHER -> TRUE

\* The call main makes after `step`.
NextCall(step, c) ==
    LET i == CHOOSE n \in 1..Len(MainOrder) : MainOrder[n] = step
        later == {n \in (i + 1)..Len(MainOrder) : Applicable(MainOrder[n], c)}
    IN MainOrder[CHOOSE n \in later : \A m \in later : n <= m]

\* main_mkdir as base_path.mkdir(exist_ok=True) would behave.
main_mkdir_ExistOk ==
    /\ pc = "mkdir"
    /\ dirs' = dirs \cup {<<>>}
    /\ pc' = NextCall("mkdir", config)
    /\ UNCHANGED <<config, cancelled, DEFAULT_PACKAGES, files, cmds, out, exit_code>>

\* base_path.mkdir(exist_ok=False); FileExistsError is caught by main.
main_mkdir ==
    /\ pc = "mkdir"
    /\ IF <<>> \in dirs
       THEN /\ out' = Append(out, "Error: Directory already exists")
            /\ exit_code' = 1
            /\ pc' = "exited"
            /\ dirs' = dirs
       ELSE /\ dirs' = dirs \cup {<<>>}
            /\ pc' = NextCall("mkdir", config)
            /\ UNCHANGED <<out, exit_code>>
    /\ UNCHANGED <<config, cancelled, DEFAULT_PACKAGES, files, cmds>>

create_directory_structure ==
    /\ pc = "create_directory_structure"
    /\ Execute(create_directory_structure_ops(config),
               NextCall("create_directory_structure", config))
    /\ UNCHANGED <<config, cancelled>>

create_server_files ==
    /\ pc = "create_server_files"
    /\ Execute(create_server_files_ops(config), NextCall("create_server_files", config))
    /\ UNCHANGED <<config, cancelled>>

setup_server ==
    /\ pc = "setup_server"
    /\ Execute(setup_server_ops(config, DEFAULT_PACKAGES), NextCall("setup_server", config))
    /\ UNCHANGED <<config, cancelled>>

setup_client ==
    /\ pc = "setup_client"
    /\ Execute(setup_client_ops(config, DEFAULT_PACKAGES), NextCall("setup_client", config))
    /\ UNCHANGED <<config, cancelled>>

create_client_files ==
    /\ pc = "create_client_files"
    /\ \E ops \in create_client_files_ops(config) :
          Execute(ops, NextCall("create_client_files", config))
    /\ UNCHANGED <<config, cancelled>>

add_docker_support ==
    /\ pc = "add_docker_support"
    /\ Execute(add_docker_support_ops(config), NextCall("add_docker_support", config))
    /\ UNCHANGED <<config, cancelled>>

\* subprocess.run(['git', 'init'], ...) and the .gitignore of main.
main_git_init ==
    /\ pc = "git_init"
    /\ Execute(git_init_ops(config), NextCall("git_init", config))
    /\ UNCHANGED <<config, cancelled>>

\* The two success lines; main returns and the process ends with status 0.
main_success ==
    /\ pc = "success"
    /\ out' = out \o <<"Project created successfully", "Navigate to project directory">>
    /\ exit_code' = 0
    /\ pc' = "exited"
    /\ UNCHANGED <<config, cancelled, DEFAULT_PACKAGES, dirs, files, cmds>>

-----------------------------------------------------------------------------

\* The process starts; the target directory may be left over from an earlier run.
Init ==
    /\ pc = "get_user_input"
    /\ config = NoConfig
    /\ cancelled = {}
    /\ DEFAULT_PACKAGES = DEFAULT_PACKAGES_literal
    /\ dirs \in {{}, {<<>>}}
    /\ files = <<>>
    /\ cmds = <<>>
    /\ out = <<>>
    /\ exit_code = Running

Next ==
    \/ get_user_input
    \/ main_mkdir
    \/ create_directory_structure
    \/ create_server_files
    \/ setup_server
    \/ setup_client
    \/ create_client_files
    \/ add_docker_support
    \/ main_git_init
    \/ main_success

Spec == Init /\ [][Next]_vars

-----------------------------------------------------------------------------
(* Vocabulary of the properties *)

\* How often x occurs in a sequence.
Count(x, seq) == Cardinality({i \in DOMAIN seq : seq[i] = x})

\* A path below server/.
UnderServer(path) == Len(path) >= 1 /\ path[1] = "server"

\* The KEY names of a .env content.
EnvKeys(content) == {content[i][1] : i \in DOMAIN content}

\* The run completed: main returned after the success message.
Completed == pc = "exited" /\ exit_code = 0

\* The backend framework names a configuration can hold after .lower().
BackendFrameworks == {"express", "nestjs", "fastapi", "django", "flask"}

\* The database names a configuration can hold after .lower().
Databases == {"mongodb", "postgresql", "mysql", "sqlite", "none"}

\* A dependency install run in client/, as setup_client issues it.
IsClientInstall(cmd) == cmd.cwd = <<"client">> /\ cmd.argv[2] = "install"

\* A dependency install run in server/ (required or dev).
IsServerInstall(cmd) ==
    /\ cmd.cwd = <<"server">>
    /\ \E i \in 1..Len(cmd.argv) : cmd.argv[i] \in {"install", "add"}

\* A dev-dependency install run in server/.
IsServerDevInstall(cmd) ==
    /\ IsServerInstall(cmd)
    /\ \E i \in 1..Len(cmd.argv) : cmd.argv[i] = "-D"

\* The packages the table lists for the configuration's styling and state choice.
StylingAndStatePackages(c) ==
    LET client == DEFAULT_PACKAGES_literal.client[c.frontend_framework]
    IN (IF c.styling_choice # PyNone THEN Range(client.styling[c.styling_choice]) ELSE {})
       \cup
       (IF c.state_management # PyNone THEN Range(client.state[c.state_management]) ELSE {})

-----------------------------------------------------------------------------
(* C1 *)

\* C1 (as claimed): every client dependency install issued by setup_client
\* contains each package the table lists for the chosen styling and state
\* management exactly once.
C1_ClientInstallHasStylingAndState ==
    \A i \in 1..Len(cmds) :
        ( /\ IsClientInstall(cmds[i])
          /\ cmds[i].rc = "ok"
          /\ config.frontend_framework # PyNone ) =>
            \A pkg \in StylingAndStatePackages(config) : Count(pkg, cmds[i].argv) = 1

-----------------------------------------------------------------------------
(* C2 *)

\* The keys the claim expects in server/.env for a framework and a database.
ExpectedEnvKeys(fw, db) ==
    {"PORT"}
    \cup (IF fw = "flask" THEN {"SECRET_KEY"} ELSE {})
    \cup (IF db = "mongodb" THEN {"MONGO_URI"}
          ELSE IF db \in {"postgresql", "mysql"}
          THEN {upper(db) \o suffix :
                   suffix \in {"_HOST", "_PORT", "_USER", "_PASSWORD", "_DATABASE"}}
          ELSE {})

\* C2 (as claimed): a completed run with a backend framework and a database
\* choice has written server/.env with exactly the keys of that pair.
C2_EnvKeysExactlyThoseOfThePair ==
    ( /\ Completed
      /\ cancelled = {}
      /\ config.backend_framework \in BackendFrameworks
      /\ config.database \in Databases )
    => /\ <<"server", ".env">> \in DOMAIN files
       /\ EnvKeys(files[<<"server", ".env">>])
            = ExpectedEnvKeys(config.backend_framework, config.database)

-----------------------------------------------------------------------------
(* C3 *)

\* A command that create_server_files or setup_server issues.
IsServerCommand(cmd) ==
    \/ cmd.cwd = <<"server">>
    \/ cmd.argv[2] \in {"--version", "@nestjs/cli@latest"}

\* C3: in a "Frontend only" run nothing exists under server/, no server
\* command was run, and main is never at create_server_files or setup_server.
C3_FrontendOnlyTouchesNoServer ==
    config.project_type = "Frontend only" =>
        /\ \A d \in dirs : ~UnderServer(d)
        /\ \A f \in DOMAIN files : ~UnderServer(f)
        /\ \A i \in 1..Len(cmds) : ~IsServerCommand(cmds[i])
        /\ pc \notin {"create_server_files", "setup_server"}

\* A "Frontend only" run that completed after creating client directories
\* and running client commands.
C3_Witness ==
    /\ config.project_type = "Frontend only"
    /\ Completed
    /\ <<"client", "src", "components">> \in dirs
    /\ Len(cmds) >= 2

-----------------------------------------------------------------------------
(* C4 *)

\* C4 (as claimed): a completed run with use_typescript and backend Express
\* or NestJS has run a server dev-dependency install that names typescript
\* and @types/node, and has written server/tsconfig.json.
C4_TypeScriptAddsDevDepsAndTsconfig ==
    ( /\ Completed
      /\ config.use_typescript
      /\ config.backend_framework \in {"express", "nestjs"} )
    => /\ <<"server", "tsconfig.json">> \in DOMAIN files
       /\ \E i \in 1..Len(cmds) :
             /\ IsServerDevInstall(cmds[i])
             /\ {"typescript", "@types/node"} \subseteq Range(cmds[i].argv)

-----------------------------------------------------------------------------
(* C5 *)

\* The required packages the claim expects for a configuration.
ExpectedRequired(c) ==
    LET language == IF c.backend_language = "Python" THEN "python" ELSE "node"
        fw == IF c.backend_framework = "nestjs" THEN "nest" ELSE c.backend_framework
    IN DEFAULT_PACKAGES_literal.server[fw].required
       \o (IF c.database = "none" THEN <<>>
           ELSE DEFAULT_PACKAGES_literal.database[c.database][language])
       \o c.additional_deps

\* C5 (as claimed): a completed run with a backend framework has run a
\* server install whose package list holds the framework's required
\* packages, the drivers of the chosen database and every additional
\* dependency.
C5_RequiredInstallMergesAllLists ==
    ( /\ Completed
      /\ cancelled = {}
      /\ config.backend_framework \in BackendFrameworks )
    => \E i \in 1..Len(cmds) :
          /\ IsServerInstall(cmds[i])
          /\ ~IsServerDevInstall(cmds[i])
          /\ Range(ExpectedRequired(config)) \subseteq Range(cmds[i].argv)

-----------------------------------------------------------------------------
(* C6 *)

\* C6 (as claimed): DEFAULT_PACKAGES always has the contents it had at startup.
C6_TableNeverMutated == DEFAULT_PACKAGES = DEFAULT_PACKAGES_literal

-----------------------------------------------------------------------------
(* C7 *)

\* C7 (as claimed): once a prompt has been cancelled, no step of the run
\* creates a directory, writes a file or runs an external command.
C7_CancelHasNoSideEffects ==
    [][cancelled' # {} => dirs' = dirs /\ files' = files /\ cmds' = cmds]_vars

-----------------------------------------------------------------------------
(* C8 *)

\* The configuration with database None and database "none" exchanged.
SwapNoneDatabase(c) ==
    [c EXCEPT !.database = IF @ = PyNone THEN "none" ELSE PyNone]

\* The paths a sequence of statements writes.
WrittenPaths(ops) == {ops[i].path : i \in {j \in 1..Len(ops) : ops[j].op = "write"}}

\* C8 (as claimed): when add_docker_support has run for a configuration
\* whose database is None or "none", it wrote the same files it writes for
\* the configuration that differs only in having the other of the two.
C8_DockerTreatsNoneAndUnsetAlike ==
    ( /\ <<"Dockerfile">> \in DOMAIN files
      /\ cancelled = {}
      /\ config.database \in {PyNone, "none"} )
    => DOMAIN files \cap {<<"Dockerfile">>, <<"docker-compose.yml">>}
         = WrittenPaths(add_docker_support_ops(SwapNoneDatabase(config)))

-----------------------------------------------------------------------------
(* C9 *)

\* The error reports of the tool itself.
ToolErrors ==
    {"Error: Directory already exists", "Error running command",
     "Error: package manager not found"}

\* C9 (as claimed, part c): when a command of the selected JavaScript package
\* manager could not be started, the run ends with exit code 1 and one of
\* the tool's own error reports.
C9_MissingPackageManagerIsReported ==
    \A i \in 1..Len(cmds) :
        ( /\ cmds[i].rc = "FileNotFoundError"
          /\ cmds[i].argv[1] = get_package_manager_command(config.js_package_manager) )
        => /\ exit_code = 1
           /\ out # <<>>
           /\ out[Len(out)] \in ToolErrors

-----------------------------------------------------------------------------
(* C10 *)

\* C10: when base_path exists as main reaches mkdir, the step reports the
\* directory-exists error and ends the process with exit code 1, and leaves
\* directories, files and the command log as they were.
C10_ExistingTargetAbortsUntouched ==
    [][(pc = "mkdir" /\ <<>> \in dirs) =>
          /\ pc' = "exited"
          /\ exit_code' = 1
          /\ out' = Append(out, "Error: Directory already exists")
          /\ dirs' = dirs
          /\ files' = files
          /\ cmds' = cmds]_vars

\* A run that ended on the directory-exists error.
C10_Witness ==
    /\ pc = "exited"
    /\ exit_code = 1
    /\ out = <<"Error: Directory already exists">>
    /\ dirs = {<<>>}
    /\ files = <<>>
    /\ cmds = <<>>

-----------------------------------------------------------------------------
(* C11 *)

\* The statements of the call main is at.  create_client_files runs no
\* external command.
StepOps(step, c, t) ==
    CASE step = "create_directory_structure" -> create_directory_structure_ops(c)
      [] step = "create_server_files" -> create_server_files_ops(c)
      [] step = "setup_server" -> setup_server_ops(c, t)
      [] step = "setup_client" -> setup_client_ops(c, t)
      [] step = "add_docker_support" -> add_docker_support_ops(c)
      [] step = "git_init" -> git_init_ops(c)
      [] OTHER -> <<>>

\* The success line of main.
SuccessMessage == "Project created successfully"

\* C11: every step that invokes external commands appends them to the log
\* in the order of the step's statements, each after the one before it
\* returned zero; when the last of them returns non-zero, the directories
\* and files are those of the statements before it and no others, the
\* process has ended with exit code 1, and the success message was not
\* printed.  A failed command is never followed by another.
C11_FirstFailedCommandEndsTheRun ==
    [][cmds' # cmds =>
          LET ops == StepOps(pc, config, DEFAULT_PACKAGES) IN
          /\ \A i \in 1..Len(cmds) : cmds[i].rc = "ok"
          /\ \E j \in 1..Len(ops) :
                /\ ops[j].op \in {"run", "probe"}
                /\ \/ /\ cmds' = cmds \o OkLog(ops, j)
                      /\ exit_code' = Running
                   \/ /\ \E rc \in {"nonzero", "FileNotFoundError"} :
                            cmds' = cmds \o OkLog(ops, j - 1) \o <<Logged(ops[j], rc)>>
                      /\ dirs' = DirsAfter(ops, j - 1, dirs)
                      /\ files' = FilesAfter(ops, j - 1, files)
                      /\ pc' = "exited"
                      /\ exit_code' = 1
                      /\ \A i \in 1..Len(out') : out'[i] # SuccessMessage]_vars

\* A run ended by a command that returned non-zero, after earlier commands
\* had succeeded and files had been written.
C11_Witness ==
    /\ pc = "exited"
    /\ exit_code = 1
    /\ Len(cmds) >= 2
    /\ cmds[Len(cmds)].rc = "nonzero"
    /\ cmds[Len(cmds) - 1].rc = "ok"
    /\ <<"server", ".env">> \in DOMAIN files
    /\ <<"server", "package.json">> \notin DOMAIN files

-----------------------------------------------------------------------------
(* C12 *)

\* The fixed directory list of a configuration: what create_directory_structure
\* and create_client_additional_dirs list for its language and frameworks
\* with no flag set ("nestjs" read as the framework the lists call 'nest').
FixedDirs(c) ==
    LET plain == [c EXCEPT !.use_typescript = FALSE,
                           !.state_management = PyNone,
                           !.backend_framework = IF @ = "nestjs" THEN "nest" ELSE @]
        client == create_client_additional_dirs(plain)
    IN Range(create_directory_structure_dirs(plain))
       \cup {<<"client">> \o client[i] : i \in 1..Len(client)}

\* Directories named types, and directories named store.
TypesDirs == {d \in dirs : d # <<>> /\ d[Len(d)] = "types"}
StoreDirs == {d \in dirs : d # <<>> /\ d[Len(d)] = "store"}

\* C12 (as claimed): a completed run has created the fixed directories of
\* its language and frameworks, a types directory exactly when
\* use_typescript is true, and a store directory exactly when a state
\* management other than None was chosen.
C12_DirectoriesAreFixedListPlusFlagExtras ==
    (Completed /\ cancelled = {}) =>
        /\ FixedDirs(config) \subseteq dirs
        /\ config.use_typescript <=> TypesDirs # {}
        /\ config.state_management # PyNone <=> StoreDirs # {}

-----------------------------------------------------------------------------
(* C13 *)

\* C13: a completed run for Python, flask and sqlite has created server/app
\* with routes, models, templates and static, and has written server/.env
\* with exactly PORT=5000 and SECRET_KEY, in that order, and no database key.
C13_FlaskSqliteTreeAndEnv ==
    ( /\ Completed
      /\ config.backend_language = "Python"
      /\ config.backend_framework = "flask"
      /\ config.database = "sqlite" )
    => /\ {<<"server", "app">>, <<"server", "app", "routes">>,
           <<"server", "app", "models">>, <<"server", "app", "templates">>,
           <<"server", "app", "static">>} \subseteq dirs
       /\ <<"server", ".env">> \in DOMAIN files
       /\ LET env == files[<<"server", ".env">>] IN
          /\ Len(env) = 2
          /\ env[1] = <<"PORT", "5000">>
          /\ env[2][1] = "SECRET_KEY"
          /\ EnvKeys(env) = {"PORT", "SECRET_KEY"}

\* A completed "Backend only" run for Python, flask and sqlite.
C13_Witness ==
    /\ Completed
    /\ config.project_type = "Backend only"
    /\ config.backend_language = "Python"
    /\ config.backend_framework = "flask"
    /\ config.database = "sqlite"
    /\ <<"server", "app", "static">> \in dirs
    /\ <<"server", ".env">> \in DOMAIN files

-----------------------------------------------------------------------------
(* C14 *)

\* The calls of main that work on the server side.
ServerSteps == {"create_directory_structure", "create_server_files", "setup_server"}

\* The configuration with the other value of use_typescript.
FlipTypeScript(c) == [c EXCEPT !.use_typescript = ~@]

\* C14: with a Python backend, whatever a server-side step does to the
\* directories, the files, the command log and the package table, and
\* however it ends, is what the same step does for the configuration that
\* differs only in use_typescript.
C14_TypeScriptIsNoOpForPythonServer ==
    [][( /\ pc \in ServerSteps
         /\ config.backend_language = "Python"
         /\ config.backend_framework \in {"fastapi", "django", "flask"} )
       => LET ops == StepOps(pc, FlipTypeScript(config), DEFAULT_PACKAGES) IN
          \E k \in 0..Len(ops) :
             /\ dirs' = DirsAfter(ops, k, dirs)
             /\ files' = FilesAfter(ops, k, files)
             /\ DEFAULT_PACKAGES' = TableAfter(ops, k, DEFAULT_PACKAGES)
             /\ IF k = Len(ops)
                THEN /\ cmds' = cmds \o OkLog(ops, k)
                     /\ pc' = NextCall(pc, FlipTypeScript(config))
                     /\ out' = out
                ELSE /\ \E f \in Failures(ops[k + 1], cmds \o OkLog(ops, k)) :
                           /\ cmds' = IF f.started
                                      THEN cmds \o OkLog(ops, k)
                                           \o <<Logged(ops[k + 1], f.rc)>>
                                      ELSE cmds \o OkLog(ops, k)
                           /\ out' = Append(out, f.msg)
                     /\ pc' = "exited"]_vars

\* A completed Full-stack run with a Python backend and TypeScript chosen
\* for the frontend.
C14_Witness ==
    /\ Completed
    /\ config.backend_language = "Python"
    /\ config.backend_framework \in {"fastapi", "django", "flask"}
    /\ config.use_typescript
    /\ \E d \in dirs : UnderServer(d)
    /\ \E i \in 1..Len(cmds) : IsServerInstall(cmds[i])

-----------------------------------------------------------------------------
(* C15 *)

\* The project types that include a backend, and those that include a frontend.
BackendTypes == {"Full-stack", "Backend only"}
FrontendTypes == {"Full-stack", "Frontend only"}

\* The backend prompts and the frontend prompts of get_user_input.
BackendPrompts == {"backend_language", "backend_framework", "database"}
FrontendPrompts == {"frontend_framework", "styling_choice", "state_management"}

\* C15: while the prompts are asked, the styling and state prompts offer
\* the keys of the table as written in the source plus "None"; in every
\* configuration get_user_input returns, a backend prompt was answered or
\* cancelled only for a project type with a backend and all three were
\* answered unless one was cancelled, the styling and state answers are
\* keys of the chosen frontend framework's table or None, and the fields of
\* the side the project type lacks are None.
C15_PromptsFollowProjectType ==
    /\ pc = "get_user_input" =>
          \A fw \in DOMAIN DEFAULT_PACKAGES_literal.client :
             /\ StylingChoices(fw)
                  = DOMAIN DEFAULT_PACKAGES_literal.client[fw].styling \cup {"None"}
             /\ StateChoices(fw)
                  = DOMAIN DEFAULT_PACKAGES_literal.client[fw].state \cup {"None"}
    /\ config # NoConfig =>
          /\ (\E p \in BackendPrompts : config[p] # PyNone \/ p \in cancelled)
                => config.project_type \in BackendTypes
          /\ (config.project_type \in BackendTypes /\ cancelled \cap BackendPrompts = {})
                => \A p \in BackendPrompts : config[p] # PyNone
          /\ (\E p \in FrontendPrompts : config[p] # PyNone \/ p \in cancelled)
                => config.project_type \in FrontendTypes
          /\ config.project_type \in FrontendTypes
                => /\ config.frontend_framework \in DOMAIN DEFAULT_PACKAGES_literal.client
                   /\ LET client == DEFAULT_PACKAGES_literal.client[config.frontend_framework]
                      IN /\ config.styling_choice \in DOMAIN client.styling \cup {PyNone}
                         /\ config.state_management \in DOMAIN client.state \cup {PyNone}
          /\ config.project_type = "Frontend only"
                => /\ config.backend_language = PyNone
                   /\ config.backend_framework = PyNone
                   /\ config.database = PyNone
                   /\ config.py_package_manager = PyNone
          /\ config.project_type = "Backend only"
                => /\ config.frontend_framework = PyNone
                   /\ config.styling_choice = PyNone
                   /\ config.state_management = PyNone

\* get_user_input has returned a "Frontend only" configuration for Vue with
\* a styling and a state choice of Vue's table.
C15_Witness ==
    /\ pc = "mkdir"
    /\ config.project_type = "Frontend only"
    /\ config.frontend_framework = "vue"
    /\ config.styling_choice = "vuetify"
    /\ config.state_management = "pinia"
    /\ config.backend_language = PyNone
    /\ config.database = PyNone

-----------------------------------------------------------------------------
(* C16 *)

\* C16: no step removes a directory or a file, whether it completes or
\* fails; the command log only grows, and once its last command has failed
\* no command is added to it.
C16_NothingRemovedNothingRetried ==
    [][/\ dirs \subseteq dirs'
       /\ DOMAIN files \subseteq DOMAIN files'
       /\ Len(cmds) <= Len(cmds')
       /\ SubSeq(cmds', 1, Len(cmds)) = cmds
       /\ (cmds # <<>> /\ cmds[Len(cmds)].rc # "ok") => cmds' = cmds
       /\ \A i \in 1..Len(cmds') :
             cmds'[i].rc # "ok" =>
                /\ i = Len(cmds')
                /\ pc' = "exited"]_vars

\* A run that failed in setup_client after the server side had been
\* generated: the server directories and files are still there at exit.
C16_Witness ==
    /\ pc = "exited"
    /\ exit_code = 1
    /\ cmds # <<>>
    /\ cmds[Len(cmds)].cwd = <<"client">>
    /\ cmds[Len(cmds)].rc = "nonzero"
    /\ <<"server", "src", "models">> \in dirs
    /\ <<"server", "package.json">> \in DOMAIN files

-----------------------------------------------------------------------------
(* C17 *)

\* C17 (as claimed): for backend language JavaScript and Express the server
\* is generated as JavaScript whatever was answered for the frontend: no
\* src/app.ts, tsconfig.json or src/types under server/, no server dev
\* install naming typescript or @types/node, a dev script 'nodemon src/app.js'
\* in package.json, and src/app.js once create_server_files has run.
C17_JavaScriptBackendStaysJavaScript ==
    ( /\ config.backend_language = "JavaScript"
      /\ config.backend_framework = "express"
      /\ cancelled = {} )
    => /\ <<"server", "src", "app.ts">> \notin DOMAIN files
       /\ <<"server", "tsconfig.json">> \notin DOMAIN files
       /\ <<"server", "src", "types">> \notin dirs
       /\ \A i \in 1..Len(cmds) :
             IsServerDevInstall(cmds[i]) =>
                Range(cmds[i].argv) \cap {"typescript", "@types/node"} = {}
       /\ <<"server", "package.json">> \in DOMAIN files =>
             <<"dev", "nodemon src/app.js">> \in Range(files[<<"server", "package.json">>])
       /\ <<"server", ".env">> \in DOMAIN files =>
             <<"server", "src", "app.js">> \in DOMAIN files

-----------------------------------------------------------------------------
(* C18 *)

\* The version probe of setup_node_server in the command log.
IsProbe(cmd) == Len(cmd.argv) = 2 /\ cmd.argv[2] = "--version"

\* C18 (as claimed): in a run with a JavaScript or TypeScript backend
\* (Express or NestJS), a version probe in the command log is the first
\* command of the run and was run when the project root and the server
\* directories existed; when the probe could not be started the process
\* has ended with exit code 1 and the probe is the only command.
C18_ProbeAfterDirsBeforeCommands ==
    ( /\ config.backend_language \in {"JavaScript", "TypeScript"}
      /\ config.backend_framework \in {"express", "nestjs"}
      /\ cancelled = {} )
    => \A i \in 1..Len(cmds) :
          IsProbe(cmds[i]) =>
             /\ i = 1
             /\ <<>> \in dirs
             /\ \E d \in dirs : UnderServer(d)
             /\ cmds[i].rc # "ok" =>
                   /\ Len(cmds) = 1
                   /\ pc = "exited"
                   /\ exit_code = 1

====
